---- MODULE Spec2Model ----
(***************************************************************************)
(* Model of order_processor.py: the two pandas pipelines process_orders    *)
(* and process_inventory, and the Streamlit session that feeds them.       *)
(*                                                                         *)
(* A table is a sequence of rows (records, one field per column).  A cell  *)
(* is NaN (missing) or Cell(v).  Text is a sequence of one-character       *)
(* strings, so that startswith and split act on characters.                *)
(***************************************************************************)
EXTENDS Integers, Sequences, FiniteSets, TLC

VARIABLES item_data, exception_cases, orders, stock, shopify,
          processed_delivery, processed_inventory, last

vars == <<item_data, exception_cases, orders, stock, shopify,
          processed_delivery, processed_inventory, last>>

----------------------------------------------------------------------------
(* Cells and text *)

NaN == <<>>
Cell(v) == <<v>>
IsNaN(c) == c = NaN
Val(c) == c[1]

\* Characters in code-point order; the rank of a character orders text as
\* Python orders str.
CodePoints == <<"+", "0", "1", "2", "3", "4", "5", "6", "7", "8", "9",
                "A", "B", "E", "I", "K", "N", "O", "R", "S", "T", "U", "W", "X",
                "a", "n", "x">>

ord(c) == CHOOSE i \in 1..Len(CodePoints) : CodePoints[i] = c

RECURSIVE TextLess(_, _)
TextLess(s, t) ==
    IF t = <<>> THEN FALSE
    ELSE IF s = <<>> THEN TRUE
    ELSE IF s[1] = t[1] THEN TextLess(Tail(s), Tail(t))
    ELSE ord(s[1]) < ord(t[1])

\* Arithmetic on numeric cells: NaN propagates.
mul(a, b) == IF IsNaN(a) \/ IsNaN(b) THEN NaN ELSE Cell(Val(a) * Val(b))
sub(a, b) == IF IsNaN(a) \/ IsNaN(b) THEN NaN ELSE Cell(Val(a) - Val(b))
fillna(c, d) == IF IsNaN(c) THEN d ELSE c

\* Series.sum(): missing values are skipped, an all-missing sum is 0.
RECURSIVE sum(_)
sum(cells) ==
    IF cells = <<>> THEN 0
    ELSE (IF IsNaN(Head(cells)) THEN 0 ELSE Val(Head(cells))) + sum(Tail(cells))

\* The concatenation of a sequence of tables.
RECURSIVE Flatten(_)
Flatten(ss) == IF ss = <<>> THEN <<>> ELSE Head(ss) \o Flatten(Tail(ss))

\* The texts of a set in ascending order (groupby sorts its keys).
RECURSIVE sorted(_)
sorted(S) ==
    IF S = {} THEN <<>>
    ELSE LET m == CHOOSE x \in S : \A y \in S \ {x} : TextLess(x, y)
         IN  <<m>> \o sorted(S \ {m})

----------------------------------------------------------------------------
(* process_orders *)

ROUTEINS == <<"R", "O", "U", "T", "E", "I", "N", "S">>
KITE == <<"K", "I", "T", "E">>

\* str.startswith with a tuple of prefixes.
startswith(s, prefixes) ==
    \E p \in prefixes : Len(s) >= Len(p) /\ SubSeq(s, 1, Len(p)) = p

\* astype(str): a missing cell reads "nan".
astype_str(c) == IF IsNaN(c) THEN <<"n", "a", "n">> ELSE Val(c)

\* The filter with the KITE prefix forgotten.
FilterReserved_RouteinsOnly(orders_df) ==
    SelectSeq(orders_df, LAMBDA r : ~startswith(astype_str(r.VariantSKU), {ROUTEINS}))

\* Lines 21-23: drop the lines whose SKU starts with a reserved prefix.
FilterReserved(orders_df) ==
    SelectSeq(orders_df,
              LAMBDA r : ~startswith(astype_str(r.VariantSKU), {ROUTEINS, KITE}))

\* dict(zip(keys, values)): a later row overwrites an earlier one.
dict_zip(table, key, value) ==
    [k \in {table[i][key] : i \in 1..Len(table)} |->
        LET i == CHOOSE i \in 1..Len(table) :
                     /\ table[i][key] = k
                     /\ \A j \in (i + 1)..Len(table) : table[j][key] # k
        IN  table[i][value]]

\* The multipliers with the first row of a SKU kept instead of the last.
product_multipliers_FirstWins(exception_cases_df) ==
    [k \in {exception_cases_df[i].VariantSKU : i \in 1..Len(exception_cases_df)} |->
        LET i == CHOOSE i \in 1..Len(exception_cases_df) :
                     /\ exception_cases_df[i].VariantSKU = k
                     /\ \A j \in 1..(i - 1) : exception_cases_df[j].VariantSKU # k
        IN  exception_cases_df[i].Quantity]

product_multipliers(exception_cases_df) ==
    dict_zip(exception_cases_df, "VariantSKU", "Quantity")

product_name_changes(exception_cases_df) ==
    dict_zip(exception_cases_df, "VariantSKU", "ItemName")

\* Series.map(dict): a key the dict lacks maps to NaN.
map(c, d) == IF c \in DOMAIN d THEN d[c] ELSE NaN

\* Series.replace(dict): a value that is a key is replaced, once.
replace(c, d) == IF c \in DOMAIN d THEN d[c] ELSE c

Digits == <<"0", "1", "2", "3", "4", "5", "6", "7", "8", "9">>
IsDigit(c) == \E d \in 1..Len(Digits) : Digits[d] = c
DigitOf(c) == (CHOOSE d \in 1..Len(Digits) : Digits[d] = c) - 1

RECURSIVE ParseDigits(_, _)
ParseDigits(s, acc) ==
    IF s = <<>> THEN acc ELSE ParseDigits(Tail(s), 10 * acc + DigitOf(Head(s)))

\* pd.to_numeric(errors="coerce") on one raw cell: a number stays, a string of
\* digits is parsed, anything else becomes NaN.
to_numeric(raw) ==
    CASE raw.kind = "int" -> Cell(raw.int)
      [] raw.kind = "str" ->
            IF raw.str # <<>> /\ \A i \in 1..Len(raw.str) : IsDigit(raw.str[i])
            THEN Cell(ParseDigits(raw.str, 0))
            ELSE NaN
      [] OTHER -> NaN

\* Lines 37 and 38 swapped: the multiplier is looked up by the renamed SKU.
ApplyExceptions_RenamedKey(orders_f, exception_cases_df) ==
    [i \in 1..Len(orders_f) |->
        [VariantSKU |-> replace(orders_f[i].VariantSKU,
                                product_name_changes(exception_cases_df)),
         Quantity |-> mul(to_numeric(orders_f[i].Quantity),
                          fillna(map(replace(orders_f[i].VariantSKU,
                                             product_name_changes(exception_cases_df)),
                                     product_multipliers(exception_cases_df)),
                                 Cell(1)))]]

\* Lines 34-38: coerce, multiply by the multiplier of the original SKU, rename.
ApplyExceptions(orders_f, exception_cases_df) ==
    [i \in 1..Len(orders_f) |->
        [VariantSKU |-> replace(orders_f[i].VariantSKU,
                                product_name_changes(exception_cases_df)),
         Quantity |-> mul(to_numeric(orders_f[i].Quantity),
                          fillna(map(orders_f[i].VariantSKU,
                                     product_multipliers(exception_cases_df)),
                                 Cell(1)))]]

\* Lines 42-44: groupby("Variant SKU")["Quantity"].sum().reset_index(): one row
\* per key, keys ascending, rows with a missing key dropped.
groupby_sum(table, key, value) ==
    LET keys == sorted({Val(table[i][key]) : i \in {j \in 1..Len(table) : ~IsNaN(table[j][key])}})
    IN  [n \in 1..Len(keys) |->
            LET group == SelectSeq(table, LAMBDA r : r[key] = Cell(keys[n]))
            IN  [key |-> keys[n],
                 total |-> sum([i \in 1..Len(group) |-> group[i][value]])]]

\* str.split("+")
RECURSIVE split(_)
split(s) ==
    IF \E i \in 1..Len(s) : s[i] = "+"
    THEN LET i == CHOOSE i \in 1..Len(s) : s[i] = "+" /\ \A j \in 1..(i - 1) : s[j] # "+"
         IN  <<SubSeq(s, 1, i - 1)>> \o split(SubSeq(s, i + 1, Len(s)))
    ELSE <<s>>

\* The bundle's quantity shared out among its components.
shipment_Divided(orders_x) ==
    LET g == groupby_sum(orders_x, "VariantSKU", "Quantity")
    IN  Flatten([n \in 1..Len(g) |->
                    LET parts == split(g[n].key)
                    IN  [c \in 1..Len(parts) |->
                            [Variant_SKU |-> Cell(parts[c]),
                             Quantity |-> Cell(g[n].total \div Len(parts))]]])

\* Lines 41-48: aggregate, split each key on "+", one row per component.
shipment(orders_x) ==
    LET g == groupby_sum(orders_x, "VariantSKU", "Quantity")
    IN  Flatten([n \in 1..Len(g) |->
                    LET parts == split(g[n].key)
                    IN  [c \in 1..Len(parts) |->
                            [Variant_SKU |-> Cell(parts[c]), Quantity |-> Cell(g[n].total)]]])

\* One delivery row: lines 66-77.
DeliveryRow(s, item) ==
    [item_code |-> IF "ID" \in DOMAIN item THEN item.ID ELSE NaN,
     item_name |-> item.ItemName,
     description |-> s.Variant_SKU,
     qty |-> s.Quantity,
     stock_uom |-> item.DefaultUnitOfMeasure,
     uom |-> item.DefaultUnitOfMeasure,
     amount |-> mul(s.Quantity, item.Amount)]

NoItem == [ID |-> NaN, ItemName |-> NaN, Amount |-> NaN, DefaultUnitOfMeasure |-> NaN]

\* merge(how="inner"): a row without a catalog match is dropped.
merge_inner(ship, item_data_df) ==
    Flatten([n \in 1..Len(ship) |->
        LET hits == SelectSeq(item_data_df, LAMBDA it : it.ItemName = ship[n].Variant_SKU)
        IN  [h \in 1..Len(hits) |-> DeliveryRow(ship[n], hits[h])]])

\* Lines 62-65: merge(how="left"): each left row once per catalog row with its
\* Item Name, in catalog order; once with missing catalog fields if there is none.
merge_left(ship, item_data_df) ==
    Flatten([n \in 1..Len(ship) |->
        LET hits == SelectSeq(item_data_df, LAMBDA it : it.ItemName = ship[n].Variant_SKU)
        IN  IF hits = <<>> THEN <<DeliveryRow(ship[n], NoItem)>>
            ELSE [h \in 1..Len(hits) |-> DeliveryRow(ship[n], hits[h])]])

PaddingRows == 4

BlankRow == [item_code |-> NaN, item_name |-> NaN, description |-> NaN, qty |-> NaN,
             stock_uom |-> NaN, uom |-> NaN, amount |-> NaN]

\* Lines 83-84: reindex(range(-4, len(delivery))): four blank rows, then the rows.
reindex(delivery) == [i \in 1..PaddingRows |-> BlankRow] \o delivery

process_orders(orders_df, item_data_df, exception_cases_df) ==
    reindex(merge_left(shipment(ApplyExceptions(FilterReserved(orders_df),
                                                exception_cases_df)),
                       item_data_df))

----------------------------------------------------------------------------
(* process_inventory *)

\* Series.map(series): the total of the group keyed by the cell, NaN if none.
map_series(c, g) ==
    IF ~IsNaN(c) /\ \E n \in 1..Len(g) : g[n].key = Val(c)
    THEN Cell(g[CHOOSE n \in 1..Len(g) : g[n].key = Val(c)].total)
    ELSE NaN

\* Line 99
stock_qty(stock_df) == groupby_sum(stock_df, "ItemName", "BalanceQty")

\* Line 107
exception_fixqty(exception_cases_df) ==
    groupby_sum(exception_cases_df, "VariantSKU", "FixQty")

\* Lines 112-115
bundle_component_qty(exception_cases_df) ==
    groupby_sum([i \in 1..Len(exception_cases_df) |->
                    [ItemName |-> exception_cases_df[i].ItemName,
                     TotalQty |-> mul(exception_cases_df[i].FixQty,
                                      exception_cases_df[i].Quantity)]],
                "ItemName", "TotalQty")

\* The fixed quantity added to the stock balance instead of replacing it.
on_hand_AddsFixed(sku, stock_df, exception_cases_df) ==
    LET base == fillna(map_series(sku, stock_qty(stock_df)), Cell(0))
        fixed == fillna(map_series(sku, exception_fixqty(exception_cases_df)), Cell(0))
        subtractions == fillna(map_series(sku, bundle_component_qty(exception_cases_df)),
                               Cell(0))
    IN  sub(Cell(Val(base) + Val(fixed)), subtractions)

\* Lines 103-119 for one channel row.
on_hand(sku, stock_df, exception_cases_df) ==
    LET base == fillna(map_series(sku, stock_qty(stock_df)), Cell(0))
        fixed == fillna(map_series(sku, exception_fixqty(exception_cases_df)), base)
        subtractions == fillna(map_series(sku, bundle_component_qty(exception_cases_df)),
                               Cell(0))
    IN  sub(fixed, subtractions)

\* An inner join with the stock table: a channel row without a stock record is
\* dropped.
process_inventory_InnerJoin(stock_df, shopify_df, exception_cases_df) ==
    LET kept == SelectSeq(shopify_df,
                          LAMBDA r : ~IsNaN(map_series(r.SKU, stock_qty(stock_df))))
    IN  [i \in 1..Len(kept) |->
            [kept[i] EXCEPT !.OnHand = on_hand(kept[i].SKU, stock_df, exception_cases_df)]]

process_inventory(stock_df, shopify_df, exception_cases_df) ==
    [i \in 1..Len(shopify_df) |->
        [shopify_df[i] EXCEPT !.OnHand =
            on_hand(shopify_df[i].SKU, stock_df, exception_cases_df)]]

----------------------------------------------------------------------------
(* The Streamlit session.  A session_state entry is NaN (None, or not set)  *)
(* or Cell(table).                                                         *)

\* A column access raises KeyError when the table lacks the column.
HasColumns(table, cols) == \A i \in 1..Len(table) : cols \subseteq DOMAIN table[i]

\* Lines 179-189: process_orders raises, and the handler reports the error,
\* when an argument is None or not set, or a column it reads is not there.
OrdersRaise ==
    \/ IsNaN(orders) \/ IsNaN(item_data) \/ IsNaN(exception_cases)
    \/ ~HasColumns(Val(orders), {"VariantSKU", "Quantity"})
    \/ ~HasColumns(Val(exception_cases), {"VariantSKU", "Quantity", "ItemName"})
    \/ ~HasColumns(Val(item_data), {"ItemName", "Amount", "DefaultUnitOfMeasure"})

\* Lines 225-235
InventoryRaise ==
    \/ IsNaN(stock) \/ IsNaN(shopify) \/ IsNaN(exception_cases)
    \/ ~HasColumns(Val(stock), {"ItemName", "BalanceQty"})
    \/ ~HasColumns(Val(shopify), {"SKU"})
    \/ ~HasColumns(Val(exception_cases), {"VariantSKU", "Quantity", "ItemName", "FixQty"})

\* The check of the exception cases forgotten.
OrdersNotLoaded_NoExceptionCheck == IsNaN(item_data) \/ IsNaN(orders)

\* Line 176
OrdersNotLoaded == IsNaN(item_data) \/ IsNaN(exception_cases) \/ IsNaN(orders)

\* Line 222
InventoryNotLoaded == IsNaN(exception_cases) \/ IsNaN(stock) \/ IsNaN(shopify)

Shown(button, outcome) == [button |-> button, outcome |-> outcome]

\* Lines 175-189
ProcessOrdersButton ==
    /\ IF OrdersNotLoaded
       THEN /\ last' = Shown("Process Orders", "warning")
            /\ UNCHANGED processed_delivery
       ELSE IF OrdersRaise
       THEN /\ last' = Shown("Process Orders", "error")
            /\ UNCHANGED processed_delivery
       ELSE /\ processed_delivery' =
                   Cell(process_orders(Val(orders), Val(item_data), Val(exception_cases)))
            /\ last' = Shown("Process Orders", "complete")
    /\ UNCHANGED <<item_data, exception_cases, orders, stock, shopify, processed_inventory>>

\* Lines 221-235
ProcessInventoriesButton ==
    /\ IF InventoryNotLoaded
       THEN /\ last' = Shown("Process Inventories", "warning")
            /\ UNCHANGED processed_inventory
       ELSE IF InventoryRaise
       THEN /\ last' = Shown("Process Inventories", "error")
            /\ UNCHANGED processed_inventory
       ELSE /\ processed_inventory' =
                   Cell(process_inventory(Val(stock), Val(shopify), Val(exception_cases)))
            /\ last' = Shown("Process Inventories", "complete")
    /\ UNCHANGED <<item_data, exception_cases, orders, stock, shopify, processed_delivery>>

----------------------------------------------------------------------------
(* Inputs *)

MaxOrders == 2
MaxExceptions == 2
MaxCatalog == 2
MaxStock == 2
MaxChannel == 2

BoundedSeq(S, n) == UNION {[1..k -> S] : k \in 0..n}
Tables(rows, n) == {Cell(t) : t \in BoundedSeq(rows, n)}

tA == <<"A">>
tB == <<"B">>
tX == <<"X">>
tAB == <<"A", "+", "B">>
tKITE1 == <<"K", "I", "T", "E", "1">>

Number(n) == [kind |-> "int", int |-> n, str |-> <<>>]
Text(s) == [kind |-> "str", int |-> 0, str |-> s]

Missing == [kind |-> "nan", int |-> 0, str |-> <<>>]

\* Order lines: a SKU the exception table may name, with a number, a string of
\* digits or a string that is no number; a SKU it never names, which is also a
\* bundle component; one line for each reserved prefix.
OrderLines ==
    [VariantSKU : {Cell(tX)}, Quantity : {Number(1), Text(<<"2">>), Text(<<"x">>)}]
    \cup [VariantSKU : {Cell(tA), Cell(tKITE1), Cell(ROUTEINS)}, Quantity : {Number(1)}]

\* Exception rows as process_orders reads them: a multiplier or none, renamed
\* to itself or to a bundle.
OrderExceptionRows ==
    [VariantSKU : {Cell(tX)},
     Quantity : {Cell(2), NaN},
     ItemName : {Cell(tX), Cell(tAB)}]

CatalogRows ==
    {[ID |-> Cell("I1"), ItemName |-> Cell(tA), Amount |-> Cell(10),
      DefaultUnitOfMeasure |-> Cell("EA")]}

\* Exception rows as process_inventory reads them: with a fixed quantity or
\* none, under the SKU's own name or another; one row without a multiplier.
InventoryExceptionRows ==
    [VariantSKU : {Cell(tX)},
     Quantity : {Cell(2)},
     ItemName : {Cell(tX), Cell(tA)},
     FixQty : {Cell(5), NaN}]
    \cup {[VariantSKU |-> Cell(tX), Quantity |-> NaN, ItemName |-> Cell(tX),
           FixQty |-> Cell(5)]}

StockRows == [ItemName : {Cell(tX), Cell(tA)}, BalanceQty : {Cell(3)}]

\* Channel rows: a SKU listed under two handles, and another SKU.
ChannelRows ==
    {[Handle |-> "h1", SKU |-> Cell(tX), OnHand |-> Cell(7)],
     [Handle |-> "h2", SKU |-> Cell(tX), OnHand |-> Cell(7)],
     [Handle |-> "h3", SKU |-> Cell(tA), OnHand |-> NaN]}

NothingShown == Shown("none", "none")

----------------------------------------------------------------------------
(* process_orders on every input within the bounds *)

InitOrders ==
    /\ orders \in Tables(OrderLines, MaxOrders)
    /\ exception_cases \in Tables(OrderExceptionRows, MaxExceptions)
    /\ item_data \in Tables(CatalogRows, MaxCatalog)
    /\ stock = NaN
    /\ shopify = NaN
    /\ processed_delivery = NaN
    /\ processed_inventory = NaN
    /\ last = NothingShown

NextOrders == ProcessOrdersButton

SpecOrders == InitOrders /\ [][NextOrders]_vars

(* process_inventory on every input within the bounds *)

InitInventory ==
    /\ stock \in Tables(StockRows, MaxStock)
    /\ shopify \in Tables(ChannelRows, MaxChannel)
    /\ exception_cases \in Tables(InventoryExceptionRows, MaxExceptions)
    /\ item_data = NaN
    /\ orders = NaN
    /\ processed_delivery = NaN
    /\ processed_inventory = NaN
    /\ last = NothingShown

NextInventory == ProcessInventoriesButton

SpecInventory == InitInventory /\ [][NextInventory]_vars

----------------------------------------------------------------------------
(* The app: files are uploaded and buttons pressed in any order *)

AppItemData == {<<[ID |-> Cell("I1"), ItemName |-> Cell(tA), Amount |-> Cell(10),
                   DefaultUnitOfMeasure |-> Cell("EA")]>>}

\* One exception file without the Fix Qty column, one with it.
AppExceptions ==
    {<<[VariantSKU |-> Cell(tX), Quantity |-> Cell(2), ItemName |-> Cell(tAB)]>>,
     <<[VariantSKU |-> Cell(tX), Quantity |-> Cell(2), ItemName |-> Cell(tX),
        FixQty |-> Cell(5)]>>}

\* One orders file as expected, one without the Variant SKU column.
AppOrders ==
    {<<[VariantSKU |-> Cell(tX), Quantity |-> Number(1)],
       [VariantSKU |-> Cell(tKITE1), Quantity |-> Number(1)]>>,
     <<[SKU |-> Cell(tX), Quantity |-> Number(1)]>>}

AppStock == {<<[ItemName |-> Cell(tX), BalanceQty |-> Cell(3)]>>}

AppShopify == {<<[Handle |-> "h1", SKU |-> Cell(tX), OnHand |-> Cell(7)]>>}

\* Lines 132-142: the two reference tables are read from their files if a
\* previous session saved them.
Init ==
    /\ item_data \in {NaN} \cup {Cell(t) : t \in AppItemData}
    /\ exception_cases \in {NaN} \cup {Cell(t) : t \in AppExceptions}
    /\ orders = NaN
    /\ stock = NaN
    /\ shopify = NaN
    /\ processed_delivery = NaN
    /\ processed_inventory = NaN
    /\ last = NothingShown

\* An uploaded file is read into the session; the run shows no button outcome.

\* Lines 151-155
UploadItemData ==
    /\ \E t \in AppItemData : item_data' = Cell(t)
    /\ last' = NothingShown
    /\ UNCHANGED <<exception_cases, orders, stock, shopify, processed_delivery, processed_inventory>>

\* Lines 157-161
UploadExceptionCases ==
    /\ \E t \in AppExceptions : exception_cases' = Cell(t)
    /\ last' = NothingShown
    /\ UNCHANGED <<item_data, orders, stock, shopify, processed_delivery, processed_inventory>>

\* Lines 165-173
UploadOrders ==
    /\ \E t \in AppOrders : orders' = Cell(t)
    /\ last' = NothingShown
    /\ UNCHANGED <<item_data, exception_cases, stock, shopify, processed_delivery, processed_inventory>>

\* Lines 205-211
UploadStock ==
    /\ \E t \in AppStock : stock' = Cell(t)
    /\ last' = NothingShown
    /\ UNCHANGED <<item_data, exception_cases, orders, shopify, processed_delivery, processed_inventory>>

\* Lines 213-219
UploadShopify ==
    /\ \E t \in AppShopify : shopify' = Cell(t)
    /\ last' = NothingShown
    /\ UNCHANGED <<item_data, exception_cases, orders, stock, processed_delivery, processed_inventory>>

Next ==
    \/ UploadItemData
    \/ UploadExceptionCases
    \/ UploadOrders
    \/ UploadStock
    \/ UploadShopify
    \/ ProcessOrdersButton
    \/ ProcessInventoriesButton

Spec == Init /\ [][Next]_vars

----------------------------------------------------------------------------
(* What the delivery note is expected to hold, stated on the input tables *)

Orders == Val(orders)
Exceptions == Val(exception_cases)
Catalog == Val(item_data)
Delivery == Val(processed_delivery)
Delivered == ~IsNaN(processed_delivery) /\ last = Shown("Process Orders", "complete")

HasPrefix(s, p) == Len(s) >= Len(p) /\ \A j \in 1..Len(p) : s[j] = p[j]
Reserved(sku) == HasPrefix(astype_str(sku), ROUTEINS) \/ HasPrefix(astype_str(sku), KITE)

\* The order lines that are kept.
Retained == {i \in 1..Len(Orders) : ~Reserved(Orders[i].VariantSKU)}

ExceptionRowsOf(sku) == {i \in 1..Len(Exceptions) : Exceptions[i].VariantSKU = sku}
LastRowOf(sku) == CHOOSE i \in ExceptionRowsOf(sku) : \A j \in ExceptionRowsOf(sku) : j <= i

multiplierOf(sku) ==
    IF ExceptionRowsOf(sku) = {} \/ IsNaN(Exceptions[LastRowOf(sku)].Quantity) THEN 1
    ELSE Val(Exceptions[LastRowOf(sku)].Quantity)

canonicalNameOf(sku) ==
    IF ExceptionRowsOf(sku) = {} THEN sku ELSE Exceptions[LastRowOf(sku)].ItemName

\* A quantity that fails coercion counts as 0.
Coerced(i) ==
    IF IsNaN(to_numeric(Orders[i].Quantity)) THEN 0 ELSE Val(to_numeric(Orders[i].Quantity))

CanonicalSKUs == {canonicalNameOf(Orders[i].VariantSKU) : i \in Retained} \ {NaN}
LinesOf(k) == {i \in Retained : canonicalNameOf(Orders[i].VariantSKU) = k}

RECURSIVE SumLines(_)
SumLines(S) ==
    IF S = {} THEN 0
    ELSE LET i == CHOOSE i \in S : TRUE
         IN  Coerced(i) * multiplierOf(Orders[i].VariantSKU) + SumLines(S \ {i})

ExpectedQty(k) == SumLines(LinesOf(k))

Components(k) == split(Val(k))
ComponentSet(k) == {Components(k)[c] : c \in 1..Len(Components(k))}

\* The rows of the delivery note that describe an item.
ItemRows == {i \in 1..Len(Delivery) : ~IsNaN(Delivery[i].description)}

\* C1: the qty reported for a canonical SKU is the sum, over the retained lines
\* that rename to it, of coerced quantity times the multiplier of the original
\* SKU: every canonical SKU has a row carrying that sum, and every item row
\* carries the sum of a canonical SKU it is a component of.
C1_QtyIsSumOfMultipliedLines ==
    Delivered =>
        LET reported == {<<k, ComponentSet(k), Cell(ExpectedQty(k))>> : k \in CanonicalSKUs}
            rows == {<<Val(Delivery[i].description), Delivery[i].qty>> : i \in ItemRows}
        IN  /\ \A e \in reported : \E r \in rows : r[1] \in e[2] /\ r[2] = e[3]
            /\ \A r \in rows : \E e \in reported : r[1] \in e[2] /\ r[2] = e[3]

\* Two lines, one of them failing coercion, renamed with a multiplier other than 1.
C1_Witness ==
    /\ Delivered
    /\ \E k \in CanonicalSKUs :
          /\ Cardinality(LinesOf(k)) >= 2
          /\ ExpectedQty(k) >= 2
          /\ \E i \in LinesOf(k) : IsNaN(to_numeric(Orders[i].Quantity))
          /\ \E i \in LinesOf(k) :
                multiplierOf(Orders[i].VariantSKU) # 1 /\ Orders[i].VariantSKU # k

\* The order table with the reserved lines deleted.
RECURSIVE DeleteReserved(_)
DeleteReserved(lines) ==
    IF lines = <<>> THEN <<>>
    ELSE IF Reserved(Head(lines).VariantSKU) THEN DeleteReserved(Tail(lines))
    ELSE <<Head(lines)>> \o DeleteReserved(Tail(lines))

\* C2: a line whose SKU starts with ROUTEINS or KITE contributes nothing: the
\* delivery note is the one obtained with those lines deleted from the orders.
C2_ReservedLinesContributeNothing ==
    Delivered => Delivery = process_orders(DeleteReserved(Orders), Catalog, Exceptions)

C2_Witness ==
    /\ Delivered
    /\ Exceptions # <<>>
    /\ \E i, j \in 1..Len(Orders) :
          /\ HasPrefix(Val(Orders[i].VariantSKU), KITE)
          /\ Orders[j].VariantSKU = Cell(tX)
    /\ ItemRows # {}

\* C3: every component of a bundle has a row with the component as description
\* and the bundle's full aggregated quantity.
C3_BundleComponentsCarryFullQty ==
    Delivered =>
        \A k \in CanonicalSKUs : Len(Components(k)) >= 2 =>
            \A c \in 1..Len(Components(k)) : \E i \in ItemRows :
                /\ Delivery[i].description = Cell(Components(k)[c])
                /\ Delivery[i].qty = Cell(ExpectedQty(k))

C3_Witness ==
    /\ Delivered
    /\ \E k \in CanonicalSKUs : Len(Components(k)) >= 2 /\ ExpectedQty(k) >= 3

\* The delivery note read back as raw order lines: description as Variant SKU,
\* qty as Quantity.
AsOrders(delivery) ==
    [i \in 1..Len(delivery) |->
        [VariantSKU |-> delivery[i].description,
         Quantity |-> IF IsNaN(delivery[i].qty) THEN Missing
                      ELSE Number(Val(delivery[i].qty))]]

\* The total qty of a delivery note per description.
QtyByDescription(delivery) ==
    [d \in {Val(delivery[i].description) :
                i \in {j \in 1..Len(delivery) : ~IsNaN(delivery[j].description)}} |->
        sum([i \in 1..Len(delivery) |->
                IF delivery[i].description = Cell(d) THEN delivery[i].qty ELSE NaN])]

Rerun == process_orders(AsOrders(Delivery), Catalog, Exceptions)

Descriptions == {Val(Delivery[i].description) : i \in ItemRows}
Matches(d) == Cardinality({j \in 1..Len(Catalog) : Catalog[j].ItemName = Cell(d)})

\* C6 as stated: a second run on the first run's output gives the same totals
\* per description.
C6_Original_RerunKeepsTotals ==
    Delivered => QtyByDescription(Rerun) = QtyByDescription(Delivery)

\* No description of the first run is touched by the second: none is reserved,
\* renamed or multiplied by the exception table, none is fanned out again.
Settled ==
    \A d \in Descriptions :
        /\ ~Reserved(Cell(d))
        /\ canonicalNameOf(Cell(d)) = Cell(d)
        /\ multiplierOf(Cell(d)) = 1
        /\ Matches(d) <= 1

\* C6, amended: a second run on the first run's output gives the same totals
\* per description when no description of that output starts with a reserved
\* prefix, is renamed or multiplied by the exception table, or matches more than
\* one catalog row.
C6_RerunKeepsSettledTotals ==
    (Delivered /\ Settled) => QtyByDescription(Rerun) = QtyByDescription(Delivery)

\* A first run that renamed and multiplied, and whose output is settled.
C6_Witness ==
    /\ Delivered
    /\ Settled
    /\ \E i \in Retained :
          /\ multiplierOf(Orders[i].VariantSKU) = 2
          /\ canonicalNameOf(Orders[i].VariantSKU) = Cell(tAB)
          /\ Coerced(i) > 0
    /\ \E d \in Descriptions : Matches(d) = 1

\* The (canonical SKU, component position) pairs.
Pairs == UNION {{<<k, c>> : c \in 1..Len(Components(k))} : k \in CanonicalSKUs}
PairsOf(d) == {p \in Pairs : Components(p[1])[p[2]] = d}

\* C7 as stated: one row for each (canonical SKU, component) pair and no other
\* row.
C7_Original_OneRowPerPair ==
    Delivered =>
        /\ Len(Delivery) = Cardinality(Pairs)
        /\ \A i \in 1..Len(Delivery) : \E p \in Pairs :
              Delivery[i].description = Cell(Components(p[1])[p[2]])

RowsDescribing(d) == {i \in ItemRows : Delivery[i].description = Cell(d)}
Fan(d) == IF Matches(d) = 0 THEN 1 ELSE Matches(d)
AllComponents == UNION {ComponentSet(k) : k \in CanonicalSKUs}

\* C7, amended: after four blank rows the delivery note holds, for each
\* (canonical SKU, component) pair, one row per catalog row whose Item Name is
\* the component, and one row with missing item_code, item_name, stock_uom, uom
\* and amount when no catalog row matches; it holds no other row.
C7_RowsPerPairAndCatalogMatch ==
    Delivered =>
        /\ Len(Delivery) >= PaddingRows
        /\ \A i \in 1..PaddingRows : Delivery[i] = BlankRow
        /\ ItemRows = (PaddingRows + 1)..Len(Delivery)
        /\ Descriptions = AllComponents
        /\ \A d \in AllComponents :
              /\ Cardinality(RowsDescribing(d)) = Cardinality(PairsOf(d)) * Fan(d)
              /\ \A i \in RowsDescribing(d) :
                    IF Matches(d) = 0
                    THEN /\ IsNaN(Delivery[i].item_code)
                         /\ IsNaN(Delivery[i].item_name)
                         /\ IsNaN(Delivery[i].stock_uom)
                         /\ IsNaN(Delivery[i].uom)
                         /\ IsNaN(Delivery[i].amount)
                    ELSE /\ Delivery[i].item_name = Cell(d)
                         /\ ~IsNaN(Delivery[i].qty)

\* A component that two catalog rows match, beside one that none matches.
C7_Witness ==
    /\ Delivered
    /\ \E d \in AllComponents : Matches(d) = 2
    /\ \E d \in AllComponents : Matches(d) = 0 /\ RowsDescribing(d) # {}

----------------------------------------------------------------------------
(* What the reconciled inventory is expected to hold *)

Stock == Val(stock)
Channel == Val(shopify)
Inventory == Val(processed_inventory)
Reconciled ==
    ~IsNaN(processed_inventory) /\ last = Shown("Process Inventories", "complete")

StockRowsOf(sku) == {i \in 1..Len(Stock) : Stock[i].ItemName = sku}
FixRowsOf(sku) ==
    {i \in 1..Len(Exceptions) :
        Exceptions[i].VariantSKU = sku /\ ~IsNaN(Exceptions[i].FixQty)}
BundleRowsOf(sku) == {i \in 1..Len(Exceptions) : Exceptions[i].ItemName = sku}

RECURSIVE SumOver(_, _)
SumOver(S, f) ==
    IF S = {} THEN 0
    ELSE LET i == CHOOSE i \in S : TRUE IN f[i] + SumOver(S \ {i}, f)

StockSum(sku) ==
    SumOver(StockRowsOf(sku),
            [i \in 1..Len(Stock) |->
                IF IsNaN(Stock[i].BalanceQty) THEN 0 ELSE Val(Stock[i].BalanceQty)])

HasFixedQty(sku) == FixRowsOf(sku) # {}
FixedQty(sku) ==
    SumOver(FixRowsOf(sku),
            [i \in 1..Len(Exceptions) |->
                IF IsNaN(Exceptions[i].FixQty) THEN 0 ELSE Val(Exceptions[i].FixQty)])

IsBundleParent(sku) == BundleRowsOf(sku) # {}
BundleSubtraction(sku) ==
    SumOver(BundleRowsOf(sku),
            [i \in 1..Len(Exceptions) |->
                IF IsNaN(Exceptions[i].FixQty) \/ IsNaN(Exceptions[i].Quantity) THEN 0
                ELSE Val(Exceptions[i].FixQty) * Val(Exceptions[i].Quantity)])

\* The tier-2 value: the fixed quantity if the SKU has one, else the stock sum.
Tier2(sku) == IF HasFixedQty(sku) THEN FixedQty(sku) ELSE StockSum(sku)

\* C4: a channel row whose SKU has a fixed quantity and is no bundle parent gets
\* the fixed quantity as On hand, whatever the stock table holds.
C4_FixedQtyReplacesStock ==
    Reconciled =>
        \A i \in 1..Len(Channel) :
            (HasFixedQty(Channel[i].SKU) /\ ~IsBundleParent(Channel[i].SKU)) =>
                Inventory[i].OnHand = Cell(FixedQty(Channel[i].SKU))

\* A fixed quantity over a stock balance that differs from it.
C4_Witness ==
    /\ Reconciled
    /\ \E i \in 1..Len(Channel) :
          /\ HasFixedQty(Channel[i].SKU)
          /\ ~IsBundleParent(Channel[i].SKU)
          /\ StockSum(Channel[i].SKU) > 0
          /\ StockSum(Channel[i].SKU) # FixedQty(Channel[i].SKU)
          /\ Inventory[i].OnHand = Cell(5)

\* C5 as stated: a bundle parent's On hand is its tier-2 value minus its bundle
\* subtraction.
C5_BundleSubtractionStacks ==
    Reconciled =>
        \A i \in 1..Len(Channel) :
            IsBundleParent(Channel[i].SKU) =>
                Inventory[i].OnHand =
                    Cell(Tier2(Channel[i].SKU) - BundleSubtraction(Channel[i].SKU))

\* C8 as stated: a channel row whose SKU has no Fix Qty value gets the stock sum
\* minus its bundle subtraction.
C8_NoFixQtyFallsBackToStock ==
    Reconciled =>
        \A i \in 1..Len(Channel) :
            ~HasFixedQty(Channel[i].SKU) =>
                Inventory[i].OnHand =
                    Cell(StockSum(Channel[i].SKU) - BundleSubtraction(Channel[i].SKU))

\* C9: the output holds the channel rows, once each and in order, every column
\* but On hand as it was, and On hand a number.
C9_ChannelRowsKept ==
    Reconciled =>
        /\ Len(Inventory) = Len(Channel)
        /\ \A i \in 1..Len(Channel) :
              /\ DOMAIN Inventory[i] = DOMAIN Channel[i]
              /\ \A col \in DOMAIN Channel[i] \ {"OnHand"} : Inventory[i][col] = Channel[i][col]
              /\ ~IsNaN(Inventory[i].OnHand)

\* Repeated SKUs in the channel table, duplicate keys in stock and exceptions.
C9_Witness ==
    /\ Reconciled
    /\ Len(Channel) = 2 /\ Channel[1].SKU = Channel[2].SKU
    /\ Channel[1].Handle # Channel[2].Handle
    /\ Cardinality(StockRowsOf(Channel[1].SKU)) = 2
    /\ Cardinality(FixRowsOf(Channel[1].SKU)) = 2

----------------------------------------------------------------------------
(* The app *)

OrdersFilesLoaded == ~IsNaN(item_data) /\ ~IsNaN(exception_cases) /\ ~IsNaN(orders)
InventoryFilesLoaded == ~IsNaN(exception_cases) /\ ~IsNaN(stock) /\ ~IsNaN(shopify)

\* The last run called the core function: it completed or reported its error.
Invoked(button) == last.button = button /\ last.outcome \in {"complete", "error"}

\* C10: process_orders is called only with item data, exception cases and
\* orders loaded, process_inventory only with exception cases, stock and channel
\* data loaded; a press in any other state warns and leaves the stored results
\* as they were.
C10_CoreCalledOnlyWhenLoaded ==
    /\ [](/\ Invoked("Process Orders") => OrdersFilesLoaded
          /\ Invoked("Process Inventories") => InventoryFilesLoaded
          /\ last.button # "none" => (Invoked(last.button) \/ last.outcome = "warning"))
    /\ [][(last' # last /\ last'.outcome = "warning") =>
             /\ processed_delivery' = processed_delivery
             /\ processed_inventory' = processed_inventory]_vars

\* A press that warned while a result of the other pipeline was stored.
C10_Witness ==
    /\ last = Shown("Process Inventories", "warning")
    /\ ~IsNaN(processed_delivery)
    /\ ~InventoryFilesLoaded

====
